---- MODULE Spec2Model ----
(***************************************************************************)
(* C bindings for Xapian (cxapian.cc / cxapian.h).                         *)
(*                                                                         *)
(* The binding keeps no state of its own beyond the wrapper structs it     *)
(* allocates.  The state below is the heap of wrappers, the values the     *)
(* caller holds (handles, the errorStr slot, the pointer describe gave     *)
(* back), the character storage those pointers refer to, and the part of   *)
(* the wrapped library's state that the binding's calls read or change     *)
(* (what is on disk under a path, the writer lock, the documents added).   *)
(* The wrapped library is not part of the repository: the operators named  *)
(* Lib... state its contract at the binding's call sites.                  *)
(***************************************************************************)
EXTENDS Integers, Sequences, FiniteSets, TLC

\* ------------------------------------------------------------- bounds
MaxDb    == 3      \* database wrappers that can be live at once
MaxDoc   == 1      \* document wrappers that can be live at once
MaxQuery == 2      \* query wrappers that can be live at once
MaxAdded == 2      \* documents added to the databases, in total
MaxWdf   == 1      \* postings added to one document
MaxDepth == 2      \* depth of a query tree
MaxStr   == 1      \* cells of character storage
MaxOp    == 3      \* operator codes 0..MaxOp are passed to combine

NULL == 0

Paths     == {"p1", "p2"}
NoPath    == "-"
Terms     == {"x"}
QueryTerms == {"a", "b"}
Positions == {1}
Datas     == {"doc1"}
\* The open modes the caller passes as `options'.
Options   == {"DB_CREATE_OR_OPEN", "DB_OPEN"}
\* What the library finds under a path.
DiskStates == {"missing", "valid", "corrupt"}
\* The codes of Xapian::Query::op the model tells apart: AND, OR, AND_NOT.
RecognizedOps == {0, 1, 2}
OpCodes   == 0..MaxOp

DbIds    == 1..MaxDb
DocIds   == 1..MaxDoc
QueryIds == 1..MaxQuery
StrIds   == 1..MaxStr

VARIABLES
  disk,      \* library: disk[p], what is stored under path p
  lock,      \* library: lock[p], TRUE while a WritableDatabase holds p
  added,     \* library: added[p], the documents added under p, by docid
  db,        \* heap: db[h], the xapian_database_t wrapper at h
  held,      \* caller: the database handles returned and not yet deleted
  doc,       \* heap: doc[d], the xapian_document_t wrapper at d
  query,     \* heap: query[q], the xapian_query_t wrapper at q
  qheld,     \* caller: the query handles returned and not yet deleted
  strs,      \* heap: strs[s], a cell of character storage
  errorStr,  \* caller: the slot passed as `const char **errorStr'
  descStr,   \* caller: the pointer xapian_query_describe returned last
  lastOp     \* the call made last, what it was given and what it returned

vars == <<disk, lock, added, db, held, doc, query, qheld, strs, errorStr, descStr, lastOp>>

\* ------------------------------------------------------------- values
\* struct _xapian_database: the one field, xapian_database.
NoInner    == [kind |-> "null",   path |-> NoPath]
Uninit     == [kind |-> "uninit", path |-> NoPath]
FreeDb     == [alloc |-> FALSE, inner |-> NoInner]
Inner(k, p) == [kind |-> k, path |-> p]

\* struct _xapian_document, with the Xapian::Document it owns.
NoPosting  == [wdf |-> 0, positions |-> {}]
EmptyDocument == [data |-> "", terms |-> [t \in Terms |-> NoPosting]]
FreeDoc    == [alloc |-> FALSE, document |-> EmptyDocument]

\* struct _xapian_query, with the Xapian::Query it owns.
NoQuery    == <<"none">>
FreeQuery  == [alloc |-> FALSE, q |-> NoQuery]
TermLeaf(t)        == <<"term", t>>
Combine(op, l, r)  == <<"op", op, l, r>>

RECURSIVE Depth(_)
Depth(q) == IF q[1] = "op" THEN 1 + (IF Depth(q[3]) > Depth(q[4]) THEN Depth(q[3]) ELSE Depth(q[4]))
            ELSE 1

RECURSIVE OpsOf(_)
OpsOf(q) == IF q[1] = "op" THEN {q[2]} \cup OpsOf(q[3]) \cup OpsOf(q[4]) ELSE {}

FreeStr    == [live |-> FALSE, text |-> ""]

\* The record of a call: its name, then what the call was given and gave back.
BaseOp(name) ==
  [op |-> name, path |-> NoPath, ret |-> NULL, locked |-> FALSE,
   errBefore |-> NULL, msg |-> "", val |-> {}, id |-> 0, code |-> 0,
   qa |-> NULL, qb |-> NULL, a |-> NoQuery, b |-> NoQuery]

Init ==
  /\ disk \in [Paths -> DiskStates]
  /\ lock = [p \in Paths |-> FALSE]
  /\ added = [p \in Paths |-> <<>>]
  /\ db = [h \in DbIds |-> FreeDb]
  /\ held = {}
  /\ doc = [d \in DocIds |-> FreeDoc]
  /\ query = [q \in QueryIds |-> FreeQuery]
  /\ qheld = {}
  /\ strs = [s \in StrIds |-> FreeStr]
  /\ errorStr = NULL
  /\ descStr = NULL
  /\ lastOp = BaseOp("init")

\* ------------------------------------------------- the wrapped library
\* new Xapian::WritableDatabase(filename, options): "ok", or the
\* Xapian::Error it throws.
LibWritableDatabase(p, o) ==
  IF lock[p] THEN "DatabaseLockError"
  ELSE IF disk[p] = "corrupt" THEN "DatabaseCorruptError"
  ELSE IF disk[p] = "missing" /\ o = "DB_OPEN" THEN "DatabaseOpeningError"
  ELSE "ok"

\* new Xapian::Database(filename): "ok", or the Xapian::Error it throws.
\* A reader takes no lock.
LibDatabase(p) ==
  IF disk[p] = "missing" THEN "DatabaseOpeningError"
  ELSE IF disk[p] = "corrupt" THEN "DatabaseCorruptError"
  ELSE "ok"

\* WritableDatabase::add_document: the document is stored under the next
\* document id, which the library returns.
LibAddDocument(p, document) == Append(added[p], document)
LibAssignedId(p) == Len(added[p]) + 1

TotalAdded == Len(added["p1"]) + Len(added["p2"])

\* ------------------------------------------------------ database calls
\* The exception's message lives in the exception object; errorStr is
\* pointed at it, and the object is destroyed when the handler is left.
CatchError(msg) ==
  \E s \in StrIds :
    /\ ~strs[s].live
    /\ strs' = [strs EXCEPT ![s] = [live |-> FALSE, text |-> msg]]
    /\ errorStr' = s

\* try { ... return db; } of xapian_writable_db_new
writable_db_new_try(h, p) ==
  /\ db' = [db EXCEPT ![h] = [alloc |-> TRUE, inner |-> Inner("writer", p)]]
  /\ lock' = [lock EXCEPT ![p] = TRUE]
  /\ disk' = [disk EXCEPT ![p] = "valid"]
  /\ held' = held \cup {h}
  /\ lastOp' = [BaseOp("xapian_writable_db_new") EXCEPT
                  !.path = p, !.ret = h, !.locked = lock[p], !.errBefore = errorStr]
  /\ UNCHANGED <<strs, errorStr>>

\* The handler without `delete db; return NULL;': the wrapper is handed back.
writable_db_new_catch_returns_db(h, p, msg) ==
  /\ CatchError(msg)
  /\ db' = [db EXCEPT ![h] = [alloc |-> TRUE, inner |-> NoInner]]
  /\ held' = held \cup {h}
  /\ lastOp' = [BaseOp("xapian_writable_db_new") EXCEPT
                  !.path = p, !.ret = h, !.locked = lock[p],
                  !.errBefore = errorStr, !.msg = msg]
  /\ UNCHANGED <<lock, disk>>

\* catch (const Xapian::Error & error) { ... } of xapian_writable_db_new
writable_db_new_catch(h, p, msg) ==
  /\ CatchError(msg)
  /\ db' = [db EXCEPT ![h] = FreeDb]
  /\ lastOp' = [BaseOp("xapian_writable_db_new") EXCEPT
                  !.path = p, !.ret = NULL, !.locked = lock[p],
                  !.errBefore = errorStr, !.msg = msg]
  /\ UNCHANGED <<lock, disk, held>>

xapian_writable_db_new(p, o) ==
  \E h \in DbIds :
    /\ ~db[h].alloc
    /\ IF LibWritableDatabase(p, o) = "ok"
         THEN writable_db_new_try(h, p)
         ELSE writable_db_new_catch(h, p, LibWritableDatabase(p, o))
    /\ UNCHANGED <<added, doc, query, qheld, descStr>>

\* try { ... return db; } of xapian_database_new
database_new_try(h, p) ==
  /\ db' = [db EXCEPT ![h] = [alloc |-> TRUE, inner |-> Inner("reader", p)]]
  /\ held' = held \cup {h}
  /\ lastOp' = [BaseOp("xapian_database_new") EXCEPT
                  !.path = p, !.ret = h, !.locked = lock[p], !.errBefore = errorStr]
  /\ UNCHANGED <<strs, errorStr>>

\* The handler without `delete db;': the wrapper stays allocated.
database_new_catch_leaks(h, p, msg) ==
  /\ CatchError(msg)
  /\ db' = [db EXCEPT ![h] = [alloc |-> TRUE, inner |-> Uninit]]
  /\ lastOp' = [BaseOp("xapian_database_new") EXCEPT
                  !.path = p, !.ret = NULL, !.locked = lock[p],
                  !.errBefore = errorStr, !.msg = msg]
  /\ UNCHANGED held

\* catch (const Xapian::Error & error) { ... } of xapian_database_new
database_new_catch(h, p, msg) ==
  /\ CatchError(msg)
  /\ db' = [db EXCEPT ![h] = FreeDb]
  /\ lastOp' = [BaseOp("xapian_database_new") EXCEPT
                  !.path = p, !.ret = NULL, !.locked = lock[p],
                  !.errBefore = errorStr, !.msg = msg]
  /\ UNCHANGED held

xapian_database_new(p) ==
  \E h \in DbIds :
    /\ ~db[h].alloc
    /\ IF LibDatabase(p) = "ok"
         THEN database_new_try(h, p)
         ELSE database_new_catch(h, p, LibDatabase(p))
    /\ UNCHANGED <<disk, lock, added, doc, query, qheld, descStr>>

\* delete database->xapian_database: a WritableDatabase gives up its lock.
DeleteInner(h) ==
  lock' = IF db[h].inner.kind = "writer"
            THEN [lock EXCEPT ![db[h].inner.path] = FALSE]
            ELSE lock

xapian_database_delete(h) ==
  /\ h \in held
  /\ DeleteInner(h)
  /\ db' = [db EXCEPT ![h] = FreeDb]
  /\ held' = held \ {h}
  /\ lastOp' = [BaseOp("xapian_database_delete") EXCEPT
                  !.path = db[h].inner.path, !.ret = h]
  /\ UNCHANGED <<disk, added, doc, query, qheld, strs, errorStr, descStr>>

\* The cast to WritableDatabase is right only for a handle that
\* xapian_writable_db_new returned, which is what the caller passes here.
\* The function is void: the id the library assigned is dropped.
xapian_writable_db_add_document(h, d) ==
  /\ h \in held
  /\ db[h].inner.kind = "writer"
  /\ doc[d].alloc
  /\ TotalAdded < MaxAdded
  /\ added' = [added EXCEPT ![db[h].inner.path] =
                 LibAddDocument(db[h].inner.path, doc[d].document)]
  /\ lastOp' = [BaseOp("xapian_writable_db_add_document") EXCEPT
                  !.path = db[h].inner.path, !.ret = h,
                  !.id = LibAssignedId(db[h].inner.path), !.val = {}]
  /\ UNCHANGED <<disk, lock, db, held, doc, query, qheld, strs, errorStr, descStr>>

\* ------------------------------------------------------ document calls
xapian_document_new ==
  \E d \in DocIds :
    /\ ~doc[d].alloc
    /\ doc' = [doc EXCEPT ![d] = [alloc |-> TRUE, document |-> EmptyDocument]]
    /\ lastOp' = [BaseOp("xapian_document_new") EXCEPT !.ret = d]
    /\ UNCHANGED <<disk, lock, added, db, held, query, qheld, strs, errorStr, descStr>>

xapian_document_delete(d) ==
  /\ doc[d].alloc
  /\ doc' = [doc EXCEPT ![d] = FreeDoc]
  /\ lastOp' = [BaseOp("xapian_document_delete") EXCEPT !.ret = d]
  /\ UNCHANGED <<disk, lock, added, db, held, query, qheld, strs, errorStr, descStr>>

xapian_document_set_data(d, data) ==
  /\ doc[d].alloc
  /\ doc' = [doc EXCEPT ![d].document.data = data]
  /\ lastOp' = [BaseOp("xapian_document_set_data") EXCEPT !.ret = d]
  /\ UNCHANGED <<disk, lock, added, db, held, query, qheld, strs, errorStr, descStr>>

\* Document::add_posting(term, pos): one more occurrence of the term, at pos.
xapian_document_add_posting(d, t, pos) ==
  /\ doc[d].alloc
  /\ doc[d].document.terms[t].wdf < MaxWdf
  /\ doc' = [doc EXCEPT ![d].document.terms[t] =
                 [wdf |-> @.wdf + 1, positions |-> @.positions \cup {pos}]]
  /\ lastOp' = [BaseOp("xapian_document_add_posting") EXCEPT !.ret = d]
  /\ UNCHANGED <<disk, lock, added, db, held, query, qheld, strs, errorStr, descStr>>

\* --------------------------------------------------------- query calls
\* Query::get_description(): the operands in the order they were given.
OpName(op) ==
  CASE op = 0 -> "AND" [] op = 1 -> "OR" [] op = 2 -> "AND_NOT" [] OTHER -> "?"

RECURSIVE Describe(_)
Describe(q) ==
  IF q[1] = "op"
    THEN "(" \o Describe(q[3]) \o " " \o OpName(q[2]) \o " " \o Describe(q[4]) \o ")"
    ELSE q[2]

\* new Xapian::Query((Xapian::Query::op) op, a, b).  The cast checks nothing.
\* For a code that names no operator the library either builds the node as
\* it is told or throws; the binding is compiled against either.
LibQueryOutcomes(op) ==
  IF op \in RecognizedOps THEN {"ok"} ELSE {"ok", "InvalidArgumentError"}

xapian_query_new(t) ==
  \E q \in QueryIds :
    /\ ~query[q].alloc
    /\ query' = [query EXCEPT ![q] = [alloc |-> TRUE, q |-> TermLeaf(t)]]
    /\ qheld' = qheld \cup {q}
    /\ lastOp' = [BaseOp("xapian_query_new") EXCEPT !.ret = q]
    /\ UNCHANGED <<disk, lock, added, db, held, doc, strs, errorStr, descStr>>

\* The constructor returned: the wrapper is handed to the caller.
query_combine_return(q, op, qa, qb) ==
  /\ query' = [query EXCEPT ![q] =
                 [alloc |-> TRUE, q |-> Combine(op, query[qa].q, query[qb].q)]]
  /\ qheld' = qheld \cup {q}
  /\ lastOp' = [BaseOp("xapian_query_combine") EXCEPT
                  !.ret = q, !.code = op, !.qa = qa, !.qb = qb,
                  !.a = query[qa].q, !.b = query[qb].q, !.val = {"handle"}]

\* The constructor threw.  Nothing in xapian_query_combine catches: the
\* exception leaves the function, and the wrapper allocated before the
\* constructor ran is never freed nor handed to anyone.
query_combine_throw(q, op, qa, qb, err) ==
  /\ query' = [query EXCEPT ![q] = [alloc |-> TRUE, q |-> NoQuery]]
  /\ qheld' = qheld
  /\ lastOp' = [BaseOp("xapian_query_combine") EXCEPT
                  !.ret = NULL, !.code = op, !.qa = qa, !.qb = qb,
                  !.a = query[qa].q, !.b = query[qb].q,
                  !.msg = err, !.val = {"uncaught exception"}]

xapian_query_combine(op, qa, qb) ==
  \E q \in QueryIds :
    /\ ~query[q].alloc
    /\ qa \in qheld
    /\ qb \in qheld
    /\ Depth(query[qa].q) < MaxDepth
    /\ Depth(query[qb].q) < MaxDepth
    /\ \E out \in LibQueryOutcomes(op) :
         IF out = "ok"
           THEN query_combine_return(q, op, qa, qb)
           ELSE query_combine_throw(q, op, qa, qb, out)
    /\ UNCHANGED <<disk, lock, added, db, held, doc, strs, errorStr, descStr>>

\* get_description() returns a std::string by value; c_str() points into
\* that temporary, which is destroyed before the function returns.
xapian_query_describe(q) ==
  /\ q \in qheld
  /\ \E s \in StrIds :
       /\ ~strs[s].live
       /\ strs' = [strs EXCEPT ![s] = [live |-> FALSE, text |-> Describe(query[q].q)]]
       /\ descStr' = s
  /\ lastOp' = [BaseOp("xapian_query_describe") EXCEPT
                  !.ret = q, !.msg = Describe(query[q].q)]
  /\ UNCHANGED <<disk, lock, added, db, held, doc, query, qheld, errorStr>>

xapian_query_delete(q) ==
  /\ q \in qheld
  /\ query' = [query EXCEPT ![q] = FreeQuery]
  /\ qheld' = qheld \ {q}
  /\ lastOp' = [BaseOp("xapian_query_delete") EXCEPT !.ret = q]
  /\ UNCHANGED <<disk, lock, added, db, held, doc, strs, errorStr, descStr>>

\* ------------------------------------------------------ specifications
NextOpen ==
  \/ \E p \in Paths, o \in Options : xapian_writable_db_new(p, o)
  \/ \E p \in Paths : xapian_database_new(p)
  \/ \E h \in DbIds : xapian_database_delete(h)

NextDb ==
  \/ NextOpen
  \/ \E h \in DbIds, d \in DocIds : xapian_writable_db_add_document(h, d)
  \/ xapian_document_new
  \/ \E d \in DocIds : xapian_document_delete(d)
  \/ \E d \in DocIds, data \in Datas : xapian_document_set_data(d, data)
  \/ \E d \in DocIds, t \in Terms, pos \in Positions : xapian_document_add_posting(d, t, pos)

NextQuery ==
  \/ \E t \in QueryTerms : xapian_query_new(t)
  \/ \E op \in OpCodes, qa \in QueryIds, qb \in QueryIds : xapian_query_combine(op, qa, qb)
  \/ \E q \in QueryIds : xapian_query_describe(q)
  \/ \E q \in QueryIds : xapian_query_delete(q)

\* Opening and closing databases.
SpecOpen == Init /\ [][NextOpen]_vars

\* The database and document calls.
SpecDb == Init /\ [][NextDb]_vars

\* The query calls; they read nothing of the databases.
InitQuery == Init /\ disk = [p \in Paths |-> "missing"]
SpecQuery == InitQuery /\ [][NextQuery]_vars

\* -------------------------------------------------------------- claims
Allocated == {h \in DbIds : db[h].alloc}
WritersOn(p) == {h \in Allocated : db[h].inner = Inner("writer", p)}
IsOpen(o) == o.op \in {"xapian_writable_db_new", "xapian_database_new"}
KindOpened(o) == IF o.op = "xapian_writable_db_new" THEN "writer" ELSE "reader"

\* C1: at most one writer handle is open on a path at any time; opening a
\* writer on a path whose lock is held returns at once with the lock error
\* and no handle, and the writer that holds the path is still open.
C1_SingleWriter ==
  /\ \A p \in Paths : Cardinality(WritersOn(p)) <= 1
  /\ \A p \in Paths : lock[p] <=> WritersOn(p) # {}
  /\ (lastOp.op = "xapian_writable_db_new" /\ lastOp.locked) =>
       /\ lastOp.ret = NULL
       /\ lastOp.msg = "DatabaseLockError"
       /\ \E h \in held : db[h].alloc /\ db[h].inner = Inner("writer", lastOp.path)
  /\ (lastOp.op = "xapian_writable_db_new" /\ lastOp.ret # NULL) => ~lastOp.locked

\* A second writer was refused while the first is held, a reader being open
\* on the same path.
C1_Witness ==
  /\ lastOp.op = "xapian_writable_db_new"
  /\ lastOp.locked
  /\ lastOp.ret = NULL
  /\ WritersOn(lastOp.path) # {}
  /\ \E h \in held : db[h].inner = Inner("reader", lastOp.path)

\* C4: addDocument gives the caller the document id it assigned, the next
\* one after the ids given before.
C4_AddDocumentReturnsId ==
  lastOp.op = "xapian_writable_db_add_document" =>
    /\ lastOp.val = {lastOp.id}
    /\ lastOp.id = Len(added[lastOp.path])

\* C8: combine with a code that names no operator fails with
\* InvalidOperatorError and returns no handle; no query node carries such a
\* code, and the operands are as they were.
C8_InvalidOperatorRejected ==
  /\ \A q \in QueryIds : query[q].alloc => OpsOf(query[q].q) \subseteq RecognizedOps
  /\ (lastOp.op = "xapian_query_combine" /\ lastOp.code \notin RecognizedOps) =>
       /\ lastOp.val = {"InvalidOperatorError"}
       /\ lastOp.ret = NULL
       /\ query[lastOp.qa].q = lastOp.a
       /\ query[lastOp.qb].q = lastOp.b
       /\ {q \in QueryIds : query[q].alloc} = qheld

\* C9: the message a failed open leaves in the error slot, and the string
\* describe returns, are storage that is still alive when the caller reads it.
C9_StringsOutliveTheCall ==
  /\ errorStr # NULL => strs[errorStr].live
  /\ descStr # NULL => strs[descStr].live

\* C10: an open either returns a handle whose inner database is set and
\* leaves the error slot as it was, or returns NULL, writes the error slot
\* and frees its wrapper; the live wrappers are the handles returned and not
\* yet deleted.
C10_OpenOutcomes ==
  /\ Allocated = held
  /\ \A h \in held : db[h].inner.kind \in {"reader", "writer"}
  /\ IsOpen(lastOp) =>
       IF lastOp.ret # NULL
         THEN /\ lastOp.ret \in held
              /\ db[lastOp.ret].inner = Inner(KindOpened(lastOp), lastOp.path)
              /\ errorStr = lastOp.errBefore
              /\ lastOp.msg = ""
         ELSE /\ lastOp.msg \in {"DatabaseOpeningError", "DatabaseCorruptError", "DatabaseLockError"}
              /\ errorStr # NULL
              /\ strs[errorStr].text = lastOp.msg

\* An open of a missing path failed while a handle from an earlier open is held.
C10_Witness ==
  /\ lastOp.op = "xapian_database_new"
  /\ lastOp.ret = NULL
  /\ lastOp.msg = "DatabaseOpeningError"
  /\ held # {}
  /\ Allocated = held

====
